------------------------------ MODULE Spec2Model ------------------------------
(***************************************************************************)
(* A model of scott-linder/irc: the message codec (msg.go), the dispatch   *)
(* loop (Client) and the command registry (CmdHandler).                    *)
(*                                                                         *)
(* Go strings are modelled as sequences of one-character strings, so that  *)
(* the codec's scanning, splitting and trimming are computed, not assumed. *)
(***************************************************************************)
EXTENDS Naturals, Sequences, FiniteSets, TLC

VARIABLES
    call,       \* codec: the entry point exercised, "ParseMsg" | "String" | "none"
    cpc,        \* codec: "in" | "formatted" | "parsed"
    raw,        \* codec: the line handed to ParseMsg
    msg,        \* codec: the Msg handed to String
    line,       \* codec: the result of msg.String()
    out,        \* codec: the result of ParseMsg
    handlers,   \* client.handlers, in registration order
    listening,  \* Listen has been called
    recv,       \* client.recv, the buffered channel's content
    send,       \* client.send, the buffered channel's content
    ipc,        \* intake goroutine: "idle" | "ReadLine" | "recv<-"
    imsg,       \* intake goroutine: the *Msg it is about to enqueue
    nread,      \* number of ReadLine calls made
    dpc,        \* Listen's loop: "idle" | "select" | "range"
    dmsg,       \* Listen's loop: the *Msg taken from recv
    di,         \* Listen's loop: index of the next handler of the range
    tasks,      \* the running `go handler.Handle(msg, client.send)` goroutines
    wire,       \* the lines written with client.writer, in order
    crashed,    \* a goroutine panicked: the process is gone
    accepted,   \* history: <<handler, msg>> for which Accept returned true
    rejected,   \* history: <<handler, msg>> for which Accept returned false
    started,    \* history: <<handler, msg>> for which Handle was started
    env,        \* the environment: lines read, handlers registered, discipline
    reg,        \* each Client.Register call: "idle" | "loaded" | "done", slice read
    regOrder,   \* history: the handlers whose Register call has returned, in order
    overlap,    \* history: a Register call overlapped another one or Listen
    dhandlers,  \* Listen's loop: the slice the range is over
    decoded,    \* history: the Msgs ParseMsg returned to the intake, in order
    dequeued,   \* history: the Msgs Listen's loop received from recv, in order
    acceptLog,  \* history: the <<handler, msg>> of each Accept call, in order
    spawnLog,   \* history: the <<handler, msg>> of each go statement, in order
    prefix,     \* CmdHandler.prefix
    cmds,       \* CmdHandler.cmds, the map from name to Cmd
    cmdsMtx,    \* CmdHandler.cmdsMtx: the goroutine holding it, or NoHolder
    plan,       \* the call each calling goroutine makes on the CmdHandler
    pc,         \* where each calling goroutine is in its call
    loc,        \* the local variables of each call
    regLog,     \* history: <<name, cmd>> of each Register call, as they return
    responds,   \* the `go ccmd.Respond(body, source, w)` goroutines started
    resp,       \* where the Respond goroutine started by each Handle call is
    script      \* what the Respond of the Cmd each Register call registers does

codecVars == <<call, cpc, raw, msg, line, out>>

clientVarsButSend ==
    <<handlers, listening, recv, ipc, imsg, nread, dpc, dmsg, di, tasks, wire, crashed,
      accepted, rejected, started, env, reg, regOrder, overlap, dhandlers, decoded, dequeued,
      acceptLog, spawnLog>>

clientVars == <<clientVarsButSend, send>>

cmdVars == <<prefix, cmds, cmdsMtx, plan, pc, loc, regLog, responds, resp, script>>

vars == <<codecVars, clientVars, cmdVars>>

-----------------------------------------------------------------------------
(* Bounds *)

\* Longest raw line handed to ParseMsg.
MaxLineLen == 6

\* Size of a Msg handed to String: its characters plus one per field.
MaxMsgSize == 7

\* Number of ReadLine calls the intake goroutine makes.
MaxReads == 3

\* Number of goroutines that call the CmdHandler concurrently, one call each.
MaxCallers == 3

\* Longest body (second parameter) of a PRIVMSG handed to CmdHandler.Handle.
MaxBodyLen == 4

\* Number of ReadLine calls of a client that registers no handler: enough
\* for recv to fill and the intake goroutine to wait with one more Msg.
MaxDeepReads == 7

\* Number of ReadLine calls of a client whose Register calls are made from
\* goroutines of their own.
MaxRacyReads == 2

\* Number of Write calls a Respond makes.
MaxWrites == 1

\* The characters lines and fields are made of: the prefix/trailing marker,
\* the separator (also the whitespace TrimSpace removes) and a letter.
Chars == {":", " ", "a"}

SeqsUpTo(S, n) == UNION {[1..k -> S] : k \in 0..n}

-----------------------------------------------------------------------------
(* package strings *)

\* s[i..] and s[..j] of Go, 1-based.
From(s, i) == SubSeq(s, i, Len(s))
Upto(s, j) == SubSeq(s, 1, j)

\* strings.HasPrefix
HasPrefix(s, p) == Len(p) <= Len(s) /\ Upto(s, Len(p)) = p

\* strings.Index, 1-based; 0 when sep does not occur in s.
Index(s, sep) ==
    LET hits == {i \in 1..(Len(s) + 1) :
                    i + Len(sep) - 1 <= Len(s) /\ SubSeq(s, i, i + Len(sep) - 1) = sep}
    IN IF hits = {} THEN 0 ELSE CHOOSE i \in hits : \A j \in hits : i <= j

\* strings.Contains
Contains(s, sep) == Index(s, sep) # 0

\* strings.SplitN(s, sep, 2) for a non-empty sep: at most two pieces.
SplitN2(s, sep) ==
    LET i == Index(s, sep)
    IN IF i = 0 THEN <<s>> ELSE <<Upto(s, i - 1), From(s, i + Len(sep))>>

\* strings.Split(s, sep) for a non-empty sep: every piece.
RECURSIVE Split(_, _)
Split(s, sep) ==
    LET i == Index(s, sep)
    IN IF i = 0 THEN <<s>>
       ELSE <<Upto(s, i - 1)>> \o Split(From(s, i + Len(sep)), sep)

\* strings.TrimLeft(s, cutset): drops every leading character in cutset.
RECURSIVE TrimLeft(_, _)
TrimLeft(s, cutset) ==
    IF s # <<>> /\ Head(s) \in cutset THEN TrimLeft(Tail(s), cutset) ELSE s

\* strings.TrimRight(s, cutset)
RECURSIVE TrimRight(_, _)
TrimRight(s, cutset) ==
    IF s # <<>> /\ s[Len(s)] \in cutset THEN TrimRight(Upto(s, Len(s) - 1), cutset)
    ELSE s

\* unicode.IsSpace, over Chars.
Whitespace == {" "}

\* strings.TrimSpace
TrimSpace(s) == TrimRight(TrimLeft(s, Whitespace), Whitespace)

\* TrimPrefix taken for a loop: drops p as long as s starts with it.
RECURSIVE TrimPrefixRepeated(_, _)
TrimPrefixRepeated(s, p) ==
    IF p # <<>> /\ HasPrefix(s, p) THEN TrimPrefixRepeated(From(s, Len(p) + 1), p) ELSE s

\* strings.TrimPrefix: drops p once when s starts with it.
TrimPrefix(s, p) == IF HasPrefix(s, p) THEN From(s, Len(p) + 1) ELSE s

-----------------------------------------------------------------------------
(* msg.go *)

\* type Msg; the zero Msg.
Msg(r, pfx, cmd, params) ==
    [Raw |-> r, Prefix |-> pfx, Cmd |-> cmd, Params |-> params]

NoMsg == Msg(<<>>, <<>>, <<>>, <<>>)

\* The outcomes of a call of ParseMsg: a Msg and a nil error, a nil Msg and
\* ErrBadMsg, or a run-time panic (index out of range).
Ok(m) == [status |-> "ok", msg |-> m]
ErrBadMsg == [status |-> "ErrBadMsg", msg |-> NoMsg]
Panic == [status |-> "panic", msg |-> NoMsg]
NoResult == [status |-> "none", msg |-> NoMsg]

\* func (msg *Msg) paramsString(): the loop over msg.Params.
RECURSIVE paramsLoop(_, _)
paramsLoop(params, i) ==
    IF i > Len(params) THEN <<>>
    ELSE (IF i = Len(params) THEN <<":">> \o params[i] ELSE params[i] \o <<" ">>)
         \o paramsLoop(params, i + 1)

\* The loop of paramsString without line 27's edge case: the last
\* parameter written as the others are, and no marker.
RECURSIVE spacedLoop(_, _)
spacedLoop(params, i) ==
    IF i > Len(params) THEN <<>>
    ELSE params[i] \o (IF i = Len(params) THEN <<>> ELSE <<" ">>)
         \o spacedLoop(params, i + 1)

paramsStringNoMarker(m) == spacedLoop(m.Params, 1)

paramsString(m) == paramsLoop(m.Params, 1)

\* String with the prefix marker written only before a non-empty prefix.
StringBarePrefix(m) ==
    (IF m.Prefix = <<>> THEN <<>> ELSE <<":">> \o m.Prefix \o <<" ">>)
    \o m.Cmd \o <<" ">> \o paramsString(m)

\* func (msg Msg) String(): fmt.Sprintf(":%v %v %v", ...)
String(m) == <<":">> \o m.Prefix \o <<" ">> \o m.Cmd \o <<" ">> \o paramsString(m)

\* msg.go:51, the prefix taken from the first piece of the line.
PrefixOf(piece) == TrimLeft(piece, {":"})

\* msg.go:43-46, the text ParseMsg tests for emptiness and stores in Raw.
RawOf(r) == TrimSpace(r)

\* msg.go:48-65 read `raw`, the argument, not msg.Raw.
Scanned(r) == r

\* func ParseMsg(raw string) (*Msg, error)
ParseMsg(r) ==
    IF RawOf(r) = <<>> THEN ErrBadMsg
    ELSE
      LET r0 == Scanned(r)
          hasPrefix == HasPrefix(r0, <<":">>)
          prefixAndRest == SplitN2(r0, <<" ">>)
      IN IF hasPrefix /\ Len(prefixAndRest) < 2 THEN Panic  \* prefixAndRest[1]
         ELSE
           LET msgPrefix == IF hasPrefix THEN PrefixOf(prefixAndRest[1]) ELSE <<>>
               r1 == IF hasPrefix THEN prefixAndRest[2] ELSE r0
               hasTrailing == Contains(r1, <<" ", ":">>)
               restAndTrailing == SplitN2(r1, <<" ", ":">>)
               r2 == IF hasTrailing THEN restAndTrailing[1] ELSE r1
               trailing == IF hasTrailing THEN restAndTrailing[2] ELSE <<>>
               cmdAndParams == Split(r2, <<" ">>)
               params == Tail(cmdAndParams)
           IN Ok(Msg(RawOf(r), msgPrefix, cmdAndParams[1],
                     IF trailing # <<>> THEN Append(params, trailing) ELSE params))

\* "PRIVMSG"
PRIVMSG == <<"P", "R", "I", "V", "M", "S", "G">>

\* func (msg *Msg) ExtractPrivmsg() (source string, body string, err error)
ExtractPrivmsg(m) ==
    IF m.Cmd = PRIVMSG /\ Len(m.Params) = 2
    THEN [source |-> m.Params[1], body |-> m.Params[2], err |-> FALSE]
    ELSE [source |-> <<>>, body |-> <<>>, err |-> TRUE]

\* An ExtractNick that takes a prefix without '!' for the nick.
ExtractNickAny(m) == [nick |-> Split(m.Prefix, <<"!">>)[1], err |-> FALSE]

\* func (msg *Msg) ExtractNick() (nick string, err error)
ExtractNick(m) ==
    IF Contains(m.Prefix, <<"!">>) /\ m.Prefix # <<>>
    THEN [nick |-> Split(m.Prefix, <<"!">>)[1], err |-> FALSE]
    ELSE [nick |-> <<>>, err |-> TRUE]

-----------------------------------------------------------------------------
(* client.go: Dial, Register, Listen                                       *)

\* Dial: make(chan *Msg, 5), twice.
SendCap == 5
RecvCap == 5

\* The handlers a program registers; each is registered at most once.
HandlerIds == {"h1", "h2"}

\* The lines the server sends: a message with a prefix, an empty line, and
\* a line that is a prefix and nothing else.
InLines == {<<":", "a", " ", "a">>, <<>>, <<":", "a">>}

\* A *Msg: the struct and its address.
Ptr(p, m) == [ptr |-> p, val |-> m]
NoPtr == Ptr(0, NoMsg)

\* What a user's Handle sends on the channel it is given: here the Msg it
\* was given, without its prefix.
ReplyTo(m) == Msg(<<>>, <<>>, m.Cmd, m.Params)

\* The program around the client and the server it talks to: how many lines
\* the connection is read for, the handlers the program registers, and
\* whether it makes its Register calls one after the other and before
\* Listen (sync) or from goroutines of their own.
Wide == [reads |-> MaxReads, handlers |-> HandlerIds, sync |-> TRUE]
Deep == [reads |-> MaxDeepReads, handlers |-> {}, sync |-> TRUE]
Racy == [reads |-> MaxRacyReads, handlers |-> HandlerIds, sync |-> FALSE]
Unused == [reads |-> 0, handlers |-> {}, sync |-> TRUE]

\* A Register call not made yet.
NoRegister == [pc |-> "idle", old |-> <<>>]

\* The state Dial returns, before Listen, in environment e; q is what the
\* send channel holds (nothing, after Dial).
DialState(e, q) ==
    /\ env = e
    /\ handlers = <<>>
    /\ reg = [h \in HandlerIds |-> NoRegister]
    /\ regOrder = <<>> /\ overlap = FALSE
    /\ listening = FALSE
    /\ recv = <<>> /\ send = q
    /\ ipc = "idle" /\ imsg = NoPtr /\ nread = 0
    /\ dpc = "idle" /\ dmsg = NoPtr /\ di = 0 /\ dhandlers = <<>>
    /\ tasks = {}
    /\ wire = <<>>
    /\ crashed = FALSE
    /\ accepted = {} /\ rejected = {} /\ started = {}
    /\ decoded = <<>> /\ dequeued = <<>> /\ acceptLog = <<>> /\ spawnLog = <<>>

ClientInit == \E e \in {Wide, Deep} : DialState(e, <<>>)

ClientIdle == DialState(Unused, <<>>)

Registered == {handlers[i] : i \in 1..Len(handlers)}

\* A Register call that has read client.handlers and not yet assigned it.
Registering == {h \in HandlerIds : reg[h].pc = "loaded"}

\* An append that puts the new element first.
GoPrepend(s, h) == <<h>> \o s

\* append(s, h)
GoAppend(s, h) == Append(s, h)

\* func (client *Client) Register(handler Handler), the right-hand side:
\* client.handlers is read for append. Nothing orders the call with another
\* Register or with Listen; a program that is sync makes it when no other
\* call is in progress and Listen has not been called.
ClientRegisterAppend(h) ==
    /\ h \in env.handlers /\ reg[h].pc = "idle"
    /\ env.sync => ~listening /\ Registering = {}
    /\ reg' = [reg EXCEPT ![h] = [pc |-> "loaded", old |-> handlers]]
    /\ overlap' = (overlap \/ listening \/ Registering # {})
    /\ UNCHANGED <<codecVars, cmdVars, env, handlers, regOrder, listening, recv, send, ipc, imsg,
                   nread, dpc, dmsg, di, dhandlers, tasks, wire, crashed, accepted, rejected,
                   started, decoded, dequeued, acceptLog, spawnLog>>

\* Register, the assignment: client.handlers = append(client.handlers,
\* handler), with the slice the call read.
ClientRegisterStore(h) ==
    /\ reg[h].pc = "loaded"
    /\ handlers' = GoAppend(reg[h].old, h)
    /\ reg' = [reg EXCEPT ![h].pc = "done"]
    /\ regOrder' = Append(regOrder, h)
    /\ UNCHANGED <<codecVars, cmdVars, env, overlap, listening, recv, send, ipc, imsg, nread, dpc,
                   dmsg, di, dhandlers, tasks, wire, crashed, accepted, rejected, started,
                   decoded, dequeued, acceptLog, spawnLog>>

\* func (client *Client) Listen(): starts the intake goroutine and enters
\* the select loop.
Listen ==
    /\ ~listening
    /\ env.sync => Registering = {}
    /\ listening' = TRUE
    /\ ipc' = "ReadLine"
    /\ dpc' = "select"
    /\ overlap' = (overlap \/ Registering # {})
    /\ UNCHANGED <<codecVars, cmdVars, env, handlers, reg, regOrder, recv, send, imsg, nread, di,
                   dmsg, dhandlers, tasks, wire, crashed, accepted, rejected, started, decoded,
                   dequeued, acceptLog, spawnLog>>

Running == listening /\ ~crashed

\* client.go:68-77, ReadLine fails: log and continue.
IntakeReadError ==
    /\ Running /\ ipc = "ReadLine" /\ nread < env.reads
    /\ nread' = nread + 1
    /\ UNCHANGED <<codecVars, cmdVars, env, handlers, reg, regOrder, overlap, listening, recv,
                   send, ipc, imsg, dpc, dmsg, di, dhandlers, tasks, wire, crashed, accepted,
                   rejected, started, decoded, dequeued, acceptLog, spawnLog>>

\* client.go:68-77, ReadLine returns a line and ParseMsg is called on it:
\* ErrBadMsg is logged and the loop continues, a Msg goes on to line 78, a
\* panic in this goroutine ends the process.
IntakeReadLine ==
    /\ Running /\ ipc = "ReadLine" /\ nread < env.reads
    /\ nread' = nread + 1
    /\ \E l \in InLines :
          LET r == ParseMsg(l)
          IN /\ ipc' = IF r.status = "ok" THEN "recv<-" ELSE ipc
             /\ imsg' = IF r.status = "ok" THEN Ptr(nread + 1, r.msg) ELSE imsg
             /\ decoded' = IF r.status = "ok" THEN Append(decoded, nread + 1) ELSE decoded
             /\ crashed' = (r.status = "panic")
    /\ UNCHANGED <<codecVars, cmdVars, env, handlers, reg, regOrder, overlap, listening, recv,
                   send, dpc, dmsg, di, dhandlers, tasks, wire, accepted, rejected, started,
                   dequeued, acceptLog, spawnLog>>

\* A channel that takes a value whatever it holds.
CanSendAlways(q, cap) == TRUE

\* A buffered channel takes a value only while it holds less than its
\* capacity; the sender waits otherwise.
CanSend(q, cap) == Len(q) < cap

\* client.go:78, client.recv <- msg: blocks while the channel is full.
IntakeEnqueue ==
    /\ Running /\ ipc = "recv<-"
    /\ CanSend(recv, RecvCap)
    /\ recv' = Append(recv, imsg)
    /\ ipc' = "ReadLine"
    /\ imsg' = NoPtr
    /\ UNCHANGED <<codecVars, cmdVars, env, handlers, reg, regOrder, overlap, listening, send,
                   nread, dpc, dmsg, di, dhandlers, tasks, wire, crashed, accepted, rejected,
                   started, decoded, dequeued, acceptLog, spawnLog>>

\* A loop that calls Handle itself waits for it to return.
AwaitsHandle(ts) == ts

\* go handler.Handle(msg, client.send): the goroutines, of those running,
\* that Listen's loop waits for before its next step. None.
Awaits(ts) == {}

\* A channel that hands out the newest value it holds.
ReceiveNewest(q) == q[Len(q)]

\* <-ch: the value received from a buffered channel is the oldest it holds.
Receive(q) == Head(q)

\* What the channel holds after Receive.
Remaining(q) == Tail(q)

\* client.go:83-85, case msg := <-client.recv, and the range begins: the
\* range expression client.handlers is evaluated once. The read is ordered
\* with no Register call: one that overlaps the assignment of the slice can
\* see a length without its array, and the index that follows panics.
DispatchRecv ==
    /\ Running /\ dpc = "select" /\ Awaits(tasks) = {}
    /\ recv # <<>>
    /\ recv' = Remaining(recv)
    /\ dequeued' = Append(dequeued, Receive(recv).ptr)
    /\ \/ /\ crashed' = crashed
          /\ IF handlers = <<>>
             THEN UNCHANGED <<dpc, dmsg, di, dhandlers>>
             ELSE dpc' = "range" /\ dmsg' = Receive(recv) /\ di' = 1 /\ dhandlers' = handlers
       \/ /\ Registering # {}
          /\ crashed' = TRUE
          /\ UNCHANGED <<dpc, dmsg, di, dhandlers>>
    /\ UNCHANGED <<codecVars, cmdVars, env, handlers, reg, regOrder, overlap, listening, send, ipc,
                   imsg, nread, tasks, wire, accepted, rejected, started, decoded, acceptLog,
                   spawnLog>>

\* client.go:86, as it would be without the test of Accept.
StartsHandleAlways(accept) == TRUE

\* client.go:86-87: Handle is started when Accept returned true.
StartsHandle(accept) == accept

\* A range from the last element to the first.
RangeAtBackwards(hs, i) == hs[Len(hs) + 1 - i]

\* for _, handler := range: the handler of the i-th iteration.
RangeAt(hs, i) == hs[i]

\* client.go:85-89, one handler of the range: its Accept is called (user
\* code, either answer) and its Handle started in a goroutine of its own.
DispatchHandler ==
    /\ Running /\ dpc = "range" /\ Awaits(tasks) = {}
    /\ LET h == RangeAt(dhandlers, di)
       IN \E accept \in BOOLEAN :
            /\ acceptLog' = Append(acceptLog, <<h, dmsg.ptr>>)
            /\ accepted' = IF accept THEN accepted \cup {<<h, dmsg.ptr>>} ELSE accepted
            /\ rejected' = IF accept THEN rejected ELSE rejected \cup {<<h, dmsg.ptr>>}
            /\ IF StartsHandle(accept)
               THEN /\ tasks' = tasks \cup {[h |-> h, msg |-> dmsg]}
                    /\ started' = started \cup {<<h, dmsg.ptr>>}
                    /\ spawnLog' = Append(spawnLog, <<h, dmsg.ptr>>)
               ELSE UNCHANGED <<tasks, started, spawnLog>>
    /\ IF di < Len(dhandlers)
       THEN di' = di + 1 /\ UNCHANGED <<dpc, dmsg, dhandlers>>
       ELSE dpc' = "select" /\ dmsg' = NoPtr /\ di' = 0 /\ dhandlers' = <<>>
    /\ UNCHANGED <<codecVars, cmdVars, env, handlers, reg, regOrder, overlap, listening, recv,
                   send, ipc, imsg, nread, wire, crashed, decoded, dequeued>>

\* A writer that sends the Raw field.
PrintfLineRaw(m) == m.Raw

\* client.writer.PrintfLine("%v", msg): the line written for a Msg.
PrintfLine(m) == String(m)

\* client.go:90-92, case msg := <-client.send: the Msg is formatted and
\* written as one line.
DispatchSend ==
    /\ Running /\ dpc = "select" /\ Awaits(tasks) = {}
    /\ send # <<>>
    /\ send' = Remaining(send)
    /\ wire' = Append(wire, PrintfLine(Receive(send).val))
    /\ UNCHANGED <<codecVars, cmdVars, env, handlers, reg, regOrder, overlap, listening, recv, ipc,
                   imsg, nread, dpc, dmsg, di, dhandlers, tasks, crashed, accepted, rejected,
                   started, decoded, dequeued, acceptLog, spawnLog>>

\* A user's Handle sends a Msg on the channel, which blocks while it is
\* full, and returns.
HandleSend(t) ==
    /\ Running /\ t \in tasks
    /\ CanSend(send, SendCap)
    /\ LET m == Ptr(t.msg.ptr, ReplyTo(t.msg.val))
       IN send' = Append(send, m)
    /\ tasks' = tasks \ {t}
    /\ UNCHANGED <<codecVars, cmdVars, env, handlers, reg, regOrder, overlap, listening, recv, ipc,
                   imsg, nread, dpc, dmsg, di, dhandlers, wire, crashed, accepted, rejected,
                   started, decoded, dequeued, acceptLog, spawnLog>>

\* A user's Handle returns without sending and its goroutine ends.
HandleReturn(t) ==
    /\ Running /\ t \in tasks
    /\ tasks' = tasks \ {t}
    /\ UNCHANGED <<codecVars, cmdVars, env, handlers, reg, regOrder, overlap, listening, recv,
                   send, ipc, imsg, nread, dpc, dmsg, di, dhandlers, wire, crashed, accepted,
                   rejected, started, decoded, dequeued, acceptLog, spawnLog>>

ClientNext ==
    \/ \E h \in HandlerIds : ClientRegisterAppend(h)
    \/ \E h \in HandlerIds : ClientRegisterStore(h)
    \/ Listen
    \/ IntakeReadError
    \/ IntakeReadLine
    \/ IntakeEnqueue
    \/ DispatchRecv
    \/ DispatchHandler
    \/ DispatchSend
    \/ \E t \in tasks : HandleSend(t)
    \/ \E t \in tasks : HandleReturn(t)

-----------------------------------------------------------------------------
(* CmdHandler                                                              *)

Callers == 1..MaxCallers

NoHolder == 0
NoCmd == 0

\* A call of the CmdHandler; the Cmd a Register call registers is a value of
\* its own, named by the caller.
RegisterCall(name) == [op |-> "Register", name |-> name, msg |-> NoMsg]
HandleCall(m) == [op |-> "Handle", name |-> <<>>, msg |-> m]
NamesCall == [op |-> "RegisteredNames", name |-> <<>>, msg |-> NoMsg]
NoCall == [op |-> "none", name |-> <<>>, msg |-> NoMsg]

NoLocals ==
    [extracted |-> FALSE, receiver |-> <<>>, name |-> <<>>, body |-> <<>>,
     source |-> <<>>, ccmd |-> NoCmd, ok |-> FALSE, names |-> <<>>, seen |-> 0]

\* What the Respond of a Cmd does with the io.Writer it is given and with
\* the CmdHandler: the number of Write calls it makes, and whether it calls
\* Register to register its Cmd under AliasName as well.
Silent == [writes |-> 0, registers |-> FALSE]
AliasName == <<"f">>

\* The bytes a Respond writes.
Payloads == {<<>>, <<"o">>}

\* A Respond goroutine that was not started.
NoRespond == [pc |-> "none", p |-> <<>>, n |-> 0, written |-> <<>>, registered |-> FALSE]

\* func NewCmdHandler(prefix string) *CmdHandler, goroutines that have not
\* called yet, and the Cmds they will register.
CmdInitWith(prefixes, plans, scripts) ==
    /\ prefix \in prefixes
    /\ cmds = <<>>
    /\ cmdsMtx = NoHolder
    /\ plan \in plans
    /\ pc = [c \in Callers |-> IF plan[c].op = "none" THEN "done" ELSE "start"]
    /\ loc = [c \in Callers |-> NoLocals]
    /\ regLog = <<>>
    /\ responds = {}
    /\ resp = [c \in Callers |-> NoRespond]
    /\ script \in scripts

\* The same, with Cmds whose Respond returns at once.
CmdInit(prefixes, plans) == CmdInitWith(prefixes, plans, {[c \in Callers |-> Silent]})

CmdIdle == CmdInit({<<>>}, {[c \in Callers |-> NoCall]})

\* func (c *CmdHandler) Accepts(msg *Msg) bool
Accepts(m) ==
    LET isPrivmsg == m.Cmd = PRIVMSG
        hasCmdPrefix == Len(m.Params) = 2 /\ HasPrefix(m.Params[2], prefix)
    IN isPrivmsg /\ hasCmdPrefix

\* The goroutine running the Respond that the Handle call of c started.
Responder(c) == MaxCallers + c
Goroutines == Callers \cup {Responder(c) : c \in Callers}

\* The goroutines between a Lock and its Unlock.
InCriticalSection(g) ==
    IF g \in Callers
    THEN pc[g] \in {"assign", "deferred", "lookup", "unlock", "range", "return"}
    ELSE resp[g - MaxCallers].pc \in {"assign", "deferred"}

\* Accesses of the map by g that no lock orders with another goroutine's.
Unsynchronized(g) == \E d \in Goroutines : d # g /\ InCriticalSection(d)

\* sync.Mutex.Lock that never waits.
MtxFreeAlways == TRUE

\* sync.Mutex.Lock returns only when no goroutine holds the mutex.
MtxFree == cmdsMtx = NoHolder

Put(m, k, v) == [x \in DOMAIN m \cup {k} |-> IF x = k THEN v ELSE m[x]]

\* An assignment that keeps an entry already there.
MapAssignIfAbsent(m, k, v, racing) == IF k \in DOMAIN m THEN {m} ELSE {Put(m, k, v)}

\* c.cmds[name] = cmd: the maps the assignment can leave. Go maps are not
\* safe for concurrent use: an assignment that races with another access
\* may be lost.
MapAssign(m, k, v, racing) == IF racing THEN {Put(m, k, v), m} ELSE {Put(m, k, v)}

\* for name := range c.cmds: the orders the keys can come in, each key once.
RangeKeys(m) ==
    {s \in [1..Cardinality(DOMAIN m) -> DOMAIN m] :
        \A i, j \in DOMAIN s : i # j => s[i] # s[j]}

CmdStep(c, op, at) == pc[c] = at /\ plan[c].op = op

\* Register: c.cmdsMtx.Lock()
RegisterLock(c) ==
    /\ CmdStep(c, "Register", "start")
    /\ MtxFree
    /\ cmdsMtx' = c
    /\ pc' = [pc EXCEPT ![c] = "assign"]
    /\ UNCHANGED <<codecVars, clientVars, prefix, cmds, plan, loc, regLog, responds, resp, script>>

\* Register: c.cmds[name] = cmd
RegisterAssign(c) ==
    /\ CmdStep(c, "Register", "assign")
    /\ cmds' \in MapAssign(cmds, plan[c].name, c, Unsynchronized(c))
    /\ pc' = [pc EXCEPT ![c] = "deferred"]
    /\ UNCHANGED <<codecVars, clientVars, prefix, cmdsMtx, plan, loc, regLog, responds, resp, script>>

\* Register returns: defer c.cmdsMtx.Unlock()
RegisterReturn(c) ==
    /\ CmdStep(c, "Register", "deferred")
    /\ cmdsMtx' = NoHolder
    /\ regLog' = Append(regLog, <<plan[c].name, c>>)
    /\ pc' = [pc EXCEPT ![c] = "done"]
    /\ UNCHANGED <<codecVars, clientVars, prefix, cmds, plan, loc, responds, resp, script>>

\* Handle, lines 153-169: the receiver, name, body and source are taken from
\* the Msg; either extraction failing is logged and Handle returns.
HandleExtract(c) ==
    /\ CmdStep(c, "Handle", "start")
    /\ LET p == ExtractPrivmsg(plan[c].msg)
           nameAndBody == SplitN2(p.body, <<" ">>)
           name == TrimPrefix(nameAndBody[1], prefix)
           body == IF Len(nameAndBody) > 1 THEN nameAndBody[2] ELSE <<>>
           n == ExtractNick(plan[c].msg)
       IN IF p.err \/ n.err
          THEN pc' = [pc EXCEPT ![c] = "done"] /\ loc' = loc
          ELSE /\ pc' = [pc EXCEPT ![c] = "lock"]
               /\ loc' = [loc EXCEPT ![c] =
                            [@ EXCEPT !.extracted = TRUE, !.receiver = p.source,
                                      !.name = name, !.body = body, !.source = n.nick]]
    /\ UNCHANGED <<codecVars, clientVars, prefix, cmds, cmdsMtx, plan, regLog, responds, resp, script>>

\* Handle: c.cmdsMtx.Lock()
HandleLock(c) ==
    /\ CmdStep(c, "Handle", "lock")
    /\ MtxFree
    /\ cmdsMtx' = c
    /\ pc' = [pc EXCEPT ![c] = "lookup"]
    /\ UNCHANGED <<codecVars, clientVars, prefix, cmds, plan, loc, regLog, responds, resp, script>>

\* Handle: ccmd, ok := c.cmds[name]
HandleLookup(c) ==
    /\ CmdStep(c, "Handle", "lookup")
    /\ LET ok == loc[c].name \in DOMAIN cmds
       IN loc' = [loc EXCEPT ![c] =
                    [@ EXCEPT !.ok = ok,
                              !.ccmd = IF ok THEN cmds[loc[c].name] ELSE NoCmd,
                              !.seen = Len(regLog)]]
    /\ pc' = [pc EXCEPT ![c] = "unlock"]
    /\ UNCHANGED <<codecVars, clientVars, prefix, cmds, cmdsMtx, plan, regLog, responds, resp, script>>

\* A Handle that keeps the mutex while it starts Respond.
HandleUnlockNever(c) ==
    /\ CmdStep(c, "Handle", "unlock")
    /\ pc' = [pc EXCEPT ![c] = "respond"]
    /\ UNCHANGED <<codecVars, clientVars, prefix, cmds, cmdsMtx, plan, loc, regLog, responds, resp,
                   script>>

\* Handle: c.cmdsMtx.Unlock()
HandleUnlock(c) ==
    /\ CmdStep(c, "Handle", "unlock")
    /\ cmdsMtx' = NoHolder
    /\ pc' = [pc EXCEPT ![c] = "respond"]
    /\ UNCHANGED <<codecVars, clientVars, prefix, cmds, plan, loc, regLog, responds, resp, script>>

\* Handle, lines 173-176: if ok, go ccmd.Respond(body, source,
\* cmdResponseWriter{receiver: receiver, send: send}); Handle returns.
HandleRespond(c) ==
    /\ CmdStep(c, "Handle", "respond")
    /\ responds' = IF loc[c].ok
                   THEN responds \cup {[by |-> c, cmd |-> loc[c].ccmd, body |-> loc[c].body,
                                        source |-> loc[c].source,
                                        receiver |-> loc[c].receiver]}
                   ELSE responds
    /\ resp' = IF loc[c].ok THEN [resp EXCEPT ![c].pc = "run"] ELSE resp
    /\ pc' = [pc EXCEPT ![c] = "done"]
    /\ UNCHANGED <<codecVars, clientVars, prefix, cmds, cmdsMtx, plan, loc, regLog, script>>

\* RegisteredNames: c.cmdsMtx.Lock()
RegisteredNamesLock(c) ==
    /\ CmdStep(c, "RegisteredNames", "start")
    /\ MtxFree
    /\ cmdsMtx' = c
    /\ pc' = [pc EXCEPT ![c] = "range"]
    /\ UNCHANGED <<codecVars, clientVars, prefix, cmds, plan, loc, regLog, responds, resp, script>>

\* RegisteredNames: the range over c.cmds, appending each name.
RegisteredNamesRange(c) ==
    /\ CmdStep(c, "RegisteredNames", "range")
    /\ \E names \in RangeKeys(cmds) :
          loc' = [loc EXCEPT ![c] = [@ EXCEPT !.names = names, !.seen = Len(regLog)]]
    /\ pc' = [pc EXCEPT ![c] = "return"]
    /\ UNCHANGED <<codecVars, clientVars, prefix, cmds, cmdsMtx, plan, regLog, responds, resp, script>>

\* RegisteredNames returns: defer c.cmdsMtx.Unlock()
RegisteredNamesReturn(c) ==
    /\ CmdStep(c, "RegisteredNames", "return")
    /\ cmdsMtx' = NoHolder
    /\ pc' = [pc EXCEPT ![c] = "done"]
    /\ UNCHANGED <<codecVars, clientVars, prefix, cmds, plan, loc, regLog, responds, resp, script>>

\* A Write that leaves the receiver out.
WriteMsgBare(receiver, p) == Msg(<<>>, <<>>, PRIVMSG, <<p>>)

\* The Msg cmdResponseWriter.Write sends for p: &Msg{Cmd: "PRIVMSG",
\* Params: []string{w.receiver, string(p)}}.
WriteMsg(receiver, p) == Msg(<<>>, <<>>, PRIVMSG, <<receiver, p>>)

\* The count Write returns: return len(p), nil.
WriteCount(p) == Len(p)

\* The Cmd whose Respond the Handle call of c started.
ScriptOf(c) == script[loc[c].ccmd]

\* Respond calls w.Write(p), w the cmdResponseWriter Handle made for it.
RespondWrite(c) ==
    /\ resp[c].pc = "run"
    /\ Len(resp[c].written) < ScriptOf(c).writes
    /\ \E p \in Payloads : resp' = [resp EXCEPT ![c].pc = "send<-", ![c].p = p]
    /\ UNCHANGED <<codecVars, clientVars, prefix, cmds, cmdsMtx, plan, pc, loc, regLog, responds,
                   script>>

\* func (w cmdResponseWriter) Write(p []byte) (n int, err error): the send
\* on w.send, and the return of len(p) and a nil error.
WriteSend(c) ==
    /\ resp[c].pc = "send<-"
    /\ CanSend(send, SendCap)
    /\ LET m == Ptr(<<c, Len(resp[c].written) + 1>>, WriteMsg(loc[c].receiver, resp[c].p))
       IN send' = Append(send, m)
    /\ resp' = [resp EXCEPT ![c].pc = "run", ![c].n = WriteCount(resp[c].p),
                            ![c].written = Append(@, resp[c].p)]
    /\ UNCHANGED <<codecVars, clientVarsButSend, prefix, cmds, cmdsMtx, plan, pc, loc, regLog,
                   responds, script>>

\* Respond calls Register(AliasName, its Cmd): c.cmdsMtx.Lock()
RespondRegisterLock(c) ==
    /\ resp[c].pc = "run"
    /\ ScriptOf(c).registers /\ ~resp[c].registered
    /\ MtxFree
    /\ cmdsMtx' = Responder(c)
    /\ resp' = [resp EXCEPT ![c].pc = "assign"]
    /\ UNCHANGED <<codecVars, clientVars, prefix, cmds, plan, pc, loc, regLog, responds, script>>

\* Register called by Respond: c.cmds[name] = cmd
RespondRegisterAssign(c) ==
    /\ resp[c].pc = "assign"
    /\ cmds' \in MapAssign(cmds, AliasName, loc[c].ccmd, Unsynchronized(Responder(c)))
    /\ resp' = [resp EXCEPT ![c].pc = "deferred"]
    /\ UNCHANGED <<codecVars, clientVars, prefix, cmdsMtx, plan, pc, loc, regLog, responds, script>>

\* Register called by Respond returns: defer c.cmdsMtx.Unlock()
RespondRegisterReturn(c) ==
    /\ resp[c].pc = "deferred"
    /\ cmdsMtx' = NoHolder
    /\ regLog' = Append(regLog, <<AliasName, loc[c].ccmd>>)
    /\ resp' = [resp EXCEPT ![c].pc = "run", ![c].registered = TRUE]
    /\ UNCHANGED <<codecVars, clientVars, prefix, cmds, plan, pc, loc, responds, script>>

\* Respond returns.
RespondReturn(c) ==
    /\ resp[c].pc = "run"
    /\ resp' = [resp EXCEPT ![c].pc = "done"]
    /\ UNCHANGED <<codecVars, clientVars, prefix, cmds, cmdsMtx, plan, pc, loc, regLog, responds,
                   script>>

CmdNext ==
    \E c \in Callers :
        \/ RegisterLock(c)
        \/ RegisterAssign(c)
        \/ RegisterReturn(c)
        \/ HandleExtract(c)
        \/ HandleLock(c)
        \/ HandleLookup(c)
        \/ HandleUnlock(c)
        \/ HandleRespond(c)
        \/ RegisteredNamesLock(c)
        \/ RegisteredNamesRange(c)
        \/ RegisteredNamesReturn(c)
        \/ RespondWrite(c)
        \/ WriteSend(c)
        \/ RespondRegisterLock(c)
        \/ RespondRegisterAssign(c)
        \/ RespondRegisterReturn(c)
        \/ RespondReturn(c)

\* The inputs of SpecCmd. Concurrent calls: the prefix "!", two names, the
\* chat lines "!e" and "!f a" from n!u to #, every assignment of a call to
\* each goroutine.
Bang == <<"!">>
NameE == <<"e">>
NameF == <<"f">>
Nick == <<"n", "!", "u">>
Channel == <<"#">>
Chat(from, body) == Msg(<<>>, from, PRIVMSG, <<Channel, body>>)

ConcurrentCalls ==
    {RegisterCall(NameE), RegisterCall(NameF),
     HandleCall(Chat(Nick, <<"!", "e">>)), HandleCall(Chat(Nick, <<"!", "f", " ", "a">>)),
     NamesCall}

\* One Register and one Handle: every body up to MaxBodyLen from every kind
\* of sender, and Msgs that are no two-parameter PRIVMSG, under each prefix.
CmdPrefixes == {<<>>, Bang, <<"!", "!">>, <<"!", " ">>}
Senders == {Nick, <<"n", "!", "u", "!", "v">>, <<"!", "n">>, <<"n">>, <<>>}
Bodies == SeqsUpTo({"!", " ", "e"}, MaxBodyLen)
HandledMsgs ==
    {Chat(from, body) : from \in Senders, body \in Bodies}
    \cup {Msg(<<>>, Nick, PRIVMSG, ps) :
            ps \in {<<>>, <<Channel>>, <<Channel, <<"!", "e">>, <<"e">>>>}}
    \cup {Msg(<<>>, Nick, <<"P", "I", "N", "G">>, <<Channel, <<"!", "e">>>>)}
ExtractionPlans ==
    {[c \in Callers |-> IF c = 1 THEN RegisterCall(name)
                        ELSE IF c = 2 THEN HandleCall(m) ELSE NoCall] :
        name \in {NameE, <<>>}, m \in HandledMsgs}

CmdInputs ==
    \/ CmdInit({Bang}, [Callers -> ConcurrentCalls])
    \/ CmdInit(CmdPrefixes, ExtractionPlans)

\* Cmds that respond: goroutine 1 registers "e", goroutine 2 handles "!e",
\* goroutine 3 makes one more call; the Respond of a Cmd writes up to
\* MaxWrites times and may register the Cmd under AliasName.
RespondingPlans ==
    {[c \in Callers |-> IF c = 1 THEN RegisterCall(NameE)
                        ELSE IF c = 2 THEN HandleCall(Chat(Nick, <<"!", "e">>))
                        ELSE IF c = 3 THEN third ELSE NoCall] :
        third \in {HandleCall(Chat(Nick, <<"!", "e", " ", "a">>)), RegisterCall(NameE), NamesCall}}
RespondingScripts ==
    {[c \in Callers |-> IF c = 1 THEN s ELSE Silent] :
        s \in [writes : {MaxWrites}, registers : BOOLEAN]}
RespondingInputs == CmdInitWith({Bang}, RespondingPlans, RespondingScripts)

\* What the channel given to Handle holds already, sent by other handlers:
\* nothing, or all but one of the Msgs it has room for.
Filler(k) == Ptr(<<0, k>>, Msg(<<>>, <<>>, <<"P", "O", "N", "G">>, <<>>))
Fills == {<<>>, [k \in 1..(SendCap - 1) |-> Filler(k)]}

\* The codec not called.
CodecIdle ==
    call = "none" /\ cpc = "in" /\ raw = <<>> /\ msg = NoMsg /\ line = <<>> /\ out = NoResult

\* The client from Dial on, with handlers that are not the CmdHandler.
Init == CodecIdle /\ ClientInit /\ CmdIdle

Next == ClientNext

Spec == Init /\ [][Next]_vars

\* The CmdHandler called from MaxCallers goroutines.
InitCmd ==
    /\ CodecIdle
    /\ \/ ClientIdle /\ CmdInputs
       \/ (\E q \in Fills : DialState(Unused, q)) /\ RespondingInputs

SpecCmd == InitCmd /\ [][CmdNext]_vars

\* The client with Register called from goroutines of their own.
InitRacy == CodecIdle /\ DialState(Racy, <<>>) /\ CmdIdle

SpecRacy == InitRacy /\ [][Next]_vars

\* The client with a select loop that keeps taking its steps: a receive
\* from recv or from send that stays possible is made, and so is the next
\* iteration of the range; a write, once begun, completes.
Fairness == WF_vars(DispatchRecv) /\ WF_vars(DispatchHandler) /\ WF_vars(DispatchSend)

SpecFair == Init /\ [][Next]_vars /\ Fairness

-----------------------------------------------------------------------------
(* Claims about the dispatch loop, checked under Spec.                     *)

\* C6: Handle is started for a handler and a message only if that handler's
\* Accept was called on that message and returned true; a handler whose
\* Accept returned false for a message has no Handle started, or running,
\* for it.
C6_HandleOnlyIfAccepted ==
    /\ started \subseteq accepted
    /\ started \cap rejected = {}
    /\ \A t \in tasks : <<t.h, t.msg.ptr>> \in accepted \ rejected

\* C6 witness: one message was accepted by one handler, whose Handle runs,
\* and rejected by the other.
C6_Witness ==
    \E t \in tasks : \E g \in HandlerIds :
        /\ g # t.h
        /\ <<g, t.msg.ptr>> \in rejected
        /\ <<t.h, t.msg.ptr>> \in started

\* C7 as stated: no inbound line stops the pipeline; once Listen runs the
\* intake goroutine is reading or enqueuing and the loop is selecting or
\* ranging, whatever was read before.
C7_PipelineNeverStops ==
    listening =>
        /\ ~crashed
        /\ ipc \in {"ReadLine", "recv<-"}
        /\ dpc \in {"select", "range"}

-----------------------------------------------------------------------------
(* Claims about the CmdHandler, checked under SpecCmd.                     *)

\* The names of the first k Register calls that returned, and the Cmd of
\* the last of them for name n.
RegNames(k) == {regLog[i][1] : i \in 1..k}
LastCmd(n, k) ==
    LET at == {i \in 1..k : regLog[i][1] = n}
    IN IF at = {} THEN NoCmd ELSE regLog[CHOOSE i \in at : \A j \in at : j <= i][2]

Times(s, x) == Cardinality({i \in DOMAIN s : s[i] = x})

LookedUp(c) == plan[c].op = "Handle" /\ pc[c] \in {"unlock", "respond", "done"} /\ loc[c].extracted

\* C8: last registration wins. Whenever the mutex is free the map holds, for
\* each name, the Cmd of the most recent Register call that returned for it;
\* RegisteredNames returns each such name exactly once and nothing else; the
\* Cmd a Handle looks up, and the one it starts Respond on, is that of the
\* most recent Register returned before the lookup, never an earlier one.
C8_LastRegistrationWins ==
    /\ cmdsMtx = NoHolder =>
          /\ DOMAIN cmds = RegNames(Len(regLog))
          /\ \A n \in DOMAIN cmds : cmds[n] = LastCmd(n, Len(regLog))
    /\ \A c \in Callers :
          (plan[c].op = "RegisteredNames" /\ pc[c] \in {"return", "done"}) =>
              /\ \A n \in RegNames(loc[c].seen) : Times(loc[c].names, n) = 1
              /\ \A i \in DOMAIN loc[c].names : loc[c].names[i] \in RegNames(loc[c].seen)
    /\ \A c \in Callers :
          LookedUp(c) => loc[c].ccmd = LastCmd(loc[c].name, loc[c].seen)
    /\ \A r \in responds :
          /\ r.cmd # NoCmd
          /\ r.cmd = LastCmd(loc[r.by].name, loc[r.by].seen)

\* C8 witness: two Register calls for one name have returned and a Handle
\* that looked the name up after both has started Respond on the second Cmd.
C8_Witness ==
    /\ Len(regLog) >= 2
    /\ regLog[1][1] = regLog[2][1]
    /\ \E r \in responds :
          /\ loc[r.by].seen >= 2
          /\ loc[r.by].name = regLog[1][1]
          /\ r.cmd = regLog[2][2]
          /\ r.cmd # regLog[1][2]

\* C9: no lost updates. The name of every Register call that has returned is
\* in the map, whatever ran concurrently, and a lookup made after the call
\* returned finds it.
C9_NoLostUpdates ==
    /\ \A c \in Callers :
          (plan[c].op = "Register" /\ pc[c] = "done") => plan[c].name \in DOMAIN cmds
    /\ \A c \in Callers :
          (LookedUp(c) /\ loc[c].name \in RegNames(loc[c].seen)) => loc[c].ok

\* C9 witness: Register calls on two names have returned in the order
\* opposite to their goroutines', both names are in the map, and a Handle
\* has found one of them.
C9_Witness ==
    /\ Len(regLog) = 2
    /\ regLog[1][1] # regLog[2][1]
    /\ regLog[1][2] > regLog[2][2]
    /\ {regLog[1][1], regLog[2][1]} \subseteq DOMAIN cmds
    /\ \E c \in Callers : LookedUp(c) /\ pc[c] = "done" /\ loc[c].ok

\* The name, body and source C10 describes for the Msg m, stated on the
\* texts themselves: the second parameter is a token without a space, then
\* (if it holds a space) a space and the body; the token is the prefix and
\* the name when it starts with the prefix, otherwise the name; the Msg's
\* prefix is the source, without a '!', then a '!'.
Extracted(m, name, body, source) ==
    /\ \E token \in {prefix \o name, name} :
          /\ ~Contains(token, <<" ">>)
          /\ IF HasPrefix(token, prefix) THEN token = prefix \o name ELSE token = name
          /\ IF Contains(m.Params[2], <<" ">>)
             THEN m.Params[2] = token \o <<" ">> \o body
             ELSE m.Params[2] = token /\ body = <<>>
    /\ ~Contains(source, <<"!">>)
    /\ HasPrefix(m.Prefix, source \o <<"!">>)

\* C10: for a two-parameter PRIVMSG whose second parameter starts with the
\* prefix and whose sender holds a '!', Handle gets past the extraction, the
\* name it looks up is the second parameter up to its first space with the
\* prefix stripped once, and the body, source and receiver it hands to
\* Respond are the text after that space, the sender up to its first '!',
\* and the first parameter.
C10_CommandExtraction ==
    \A c \in Callers :
        LET m == plan[c].msg
        IN (/\ plan[c].op = "Handle" /\ pc[c] # "start"
            /\ Accepts(m) /\ Contains(m.Prefix, <<"!">>))
           => /\ loc[c].extracted
              /\ Extracted(m, loc[c].name, loc[c].body, loc[c].source)
              /\ loc[c].receiver = m.Params[1]
              /\ \A r \in responds :
                    r.by = c => /\ Extracted(m, loc[c].name, r.body, r.source)
                                /\ r.receiver = m.Params[1]

\* C10 witness: under the prefix "!" the line "!e e" from "n!u!v" has
\* started Respond of the Cmd named "e" with body "e" and source "n".
C10_Witness ==
    /\ prefix = Bang
    /\ \E r \in responds :
          /\ plan[r.by].msg.Params[2] = <<"!", "e", " ", "e">>
          /\ plan[r.by].msg.Prefix = <<"n", "!", "u", "!", "v">>
          /\ loc[r.by].name = NameE
          /\ r.body = <<"e">>
          /\ r.source = <<"n">>
          /\ r.receiver = Channel

-----------------------------------------------------------------------------
(* The codec exercised on its own: every line up to MaxLineLen through     *)
(* ParseMsg, every Msg up to MaxMsgSize through String and back through    *)
(* ParseMsg.                                                               *)

Lines == SeqsUpTo(Chars, MaxLineLen)

\* A Msg of size n is written as its fields separated by a mark that is no
\* character: prefix | command | param | ... | param.
FieldMark == "|"

MsgOfFields(f) == Msg(<<>>, f[1], f[2], SubSeq(f, 3, Len(f)))

Msgs == {MsgOfFields(Split(s, <<FieldMark>>)) :
            s \in {t \in SeqsUpTo(Chars \cup {FieldMark}, MaxMsgSize) :
                      Contains(t, <<FieldMark>>)}}

CodecInit ==
    /\ ClientIdle /\ CmdIdle
    /\ cpc = "in"
    /\ line = <<>>
    /\ out = NoResult
    /\ \/ call = "ParseMsg" /\ raw \in Lines /\ msg = NoMsg
       \/ call = "String" /\ msg \in Msgs /\ raw = <<>>

CallParseMsg ==
    /\ call = "ParseMsg" /\ cpc = "in"
    /\ out' = ParseMsg(raw)
    /\ cpc' = "parsed"
    /\ UNCHANGED <<call, raw, msg, line, clientVars, cmdVars>>

CallString ==
    /\ call = "String" /\ cpc = "in"
    /\ line' = String(msg)
    /\ cpc' = "formatted"
    /\ UNCHANGED <<call, raw, msg, out, clientVars, cmdVars>>

CallParseMsgOfString ==
    /\ call = "String" /\ cpc = "formatted"
    /\ out' = ParseMsg(line)
    /\ cpc' = "parsed"
    /\ UNCHANGED <<call, raw, msg, line, clientVars, cmdVars>>

CodecNext == CallParseMsg \/ CallString \/ CallParseMsgOfString

SpecCodec == CodecInit /\ [][CodecNext]_vars

-----------------------------------------------------------------------------
(* Claims about the codec, checked under SpecCodec.                        *)

Middle(params) == SubSeq(params, 1, Len(params) - 1)

SamePrefixCmdParams(m, r) ==
    /\ r.status = "ok"
    /\ r.msg.Prefix = m.Prefix
    /\ r.msg.Cmd = m.Cmd
    /\ r.msg.Params = m.Params

RoundTripDone == call = "String" /\ cpc = "parsed"

\* C1 as stated: every Msg with a non-empty command and no " :" in a
\* parameter other than the last comes back from ParseMsg(m.String()) with
\* equal Prefix, Cmd and Params.
C1_RoundTripAsStated ==
    (/\ RoundTripDone
     /\ msg.Cmd # <<>>
     /\ \A i \in 1..(Len(msg.Params) - 1) : ~Contains(msg.Params[i], <<" ", ":">>))
    => SamePrefixCmdParams(msg, out)

\* The Msgs the wire format can carry: a prefix without a space or a leading
\* ':', a non-empty command without a space, at least one parameter, middle
\* parameters without a space or a leading ':', a non-empty last parameter.
Carried(m) ==
    /\ ~Contains(m.Prefix, <<" ">>) /\ ~HasPrefix(m.Prefix, <<":">>)
    /\ m.Cmd # <<>> /\ ~Contains(m.Cmd, <<" ">>)
    /\ m.Params # <<>>
    /\ \A i \in 1..(Len(m.Params) - 1) :
          ~Contains(m.Params[i], <<" ">>) /\ ~HasPrefix(m.Params[i], <<":">>)
    /\ m.Params[Len(m.Params)] # <<>>

\* C1 amended: every Msg that is Carried comes back from ParseMsg(m.String())
\* with equal Prefix, Cmd and Params (its last parameter may hold spaces and
\* " :", its prefix may be empty).
C1_RoundTrip == (RoundTripDone /\ Carried(msg)) => SamePrefixCmdParams(msg, out)

\* C1 witness: a Msg with an empty prefix, a middle parameter and a last
\* parameter that holds " :" has made the round trip.
C1_Witness ==
    /\ RoundTripDone /\ Carried(msg)
    /\ msg.Prefix = <<>>
    /\ Len(msg.Params) = 2
    /\ Contains(msg.Params[2], <<" ", ":">>)
    /\ out.msg.Params = msg.Params

\* The round trip fails for every Msg with a non-empty command that is not
\* Carried: the amendment of C1 excludes no Msg that makes the round trip.
C1_OnlyCarried ==
    (RoundTripDone /\ msg.Cmd # <<>> /\ ~Carried(msg)) => ~SamePrefixCmdParams(msg, out)

ParseDone == call = "ParseMsg" /\ cpc = "parsed"

\* C2 as stated: ParseMsg returns a Msg or ErrBadMsg for every line, and
\* ErrBadMsg exactly when the line is empty after trimming whitespace.
C2_TotalOneFailure ==
    ParseDone =>
        /\ out.status \in {"ok", "ErrBadMsg"}
        /\ out.status = "ErrBadMsg" <=> TrimSpace(raw) = <<>>

\* The fields C3 describes, for a non-empty line l: the prefix between the
\* single leading ':' and the first space, the remainder split at the first
\* " :", the tokens before the split, the text after it.
C3FirstSpace(l) == IF Contains(l, <<" ">>) THEN Index(l, <<" ">>) ELSE Len(l) + 1
C3Prefix(l) == IF l[1] = ":" THEN SubSeq(l, 2, C3FirstSpace(l) - 1) ELSE <<>>
C3Remainder(l) == IF l[1] = ":" THEN From(l, C3FirstSpace(l) + 1) ELSE l
C3Tokens(l) ==
    LET r == C3Remainder(l)
        i == Index(r, <<" ", ":">>)
    IN Split(IF i = 0 THEN r ELSE Upto(r, i - 1), <<" ">>)
C3Trailing(l) ==
    LET r == C3Remainder(l)
        i == Index(r, <<" ", ":">>)
    IN IF i = 0 THEN <<>> ELSE From(r, i + 2)
C3Params(l) ==
    Tail(C3Tokens(l)) \o (IF C3Trailing(l) # <<>> THEN <<C3Trailing(l)>> ELSE <<>>)

\* C3 as stated: for every line without leading or trailing whitespace, the
\* Msg ParseMsg returns has the prefix, command and params described.
C3_FieldExtraction ==
    (ParseDone /\ TrimSpace(raw) = raw /\ out.status = "ok") =>
        /\ out.msg.Prefix = C3Prefix(raw)
        /\ out.msg.Cmd = Head(C3Tokens(raw))
        /\ out.msg.Params = C3Params(raw)

\* C4 as stated: ParseMsg of a line gives the Prefix, Cmd and Params that
\* ParseMsg returns for the line with its surrounding whitespace removed.
C4_DecodesTrimmedLine ==
    (ParseDone /\ ParseMsg(TrimSpace(raw)).status = "ok") =>
        LET t == ParseMsg(TrimSpace(raw))
        IN /\ out.status = "ok"
           /\ out.msg.Prefix = t.msg.Prefix
           /\ out.msg.Cmd = t.msg.Cmd
           /\ out.msg.Params = t.msg.Params

\* The parameters but the last, each followed by one space.
RECURSIVE EachThenSpace(_)
EachThenSpace(ps) ==
    IF ps = <<>> THEN <<>> ELSE Head(ps) \o <<" ">> \o EachThenSpace(Tail(ps))

StringDone == call = "String" /\ cpc # "in"

\* C5 as stated: the line is ':' prefix ' ' command ' ' followed by the
\* parameters but the last each with a space, then ':' and the last
\* parameter; with no parameters it still ends with a lone ':'.
C5_ShapeAsStated ==
    StringDone =>
        line = <<":">> \o msg.Prefix \o <<" ">> \o msg.Cmd \o <<" ">>
               \o EachThenSpace(Middle(msg.Params)) \o <<":">>
               \o (IF msg.Params = <<>> THEN <<>> ELSE msg.Params[Len(msg.Params)])

\* C5 amended: with at least one parameter the line is as stated and its
\* last segment is colon-prefixed; with no parameters the line ends with the
\* space that follows the command and has no ':' token after it.
C5_Shape ==
    StringDone =>
        line = <<":">> \o msg.Prefix \o <<" ">> \o msg.Cmd \o <<" ">>
               \o (IF msg.Params = <<>> THEN <<>>
                   ELSE EachThenSpace(Middle(msg.Params)) \o <<":">>
                        \o msg.Params[Len(msg.Params)])

\* C5 witness: a Msg with three parameters has been formatted, and also one
\* with none is reachable (C5_WitnessNoParams).
C5_Witness ==
    /\ StringDone /\ Len(msg.Params) = 3
    /\ msg.Params[3] # <<>>
    /\ line[Len(line) - Len(msg.Params[3])] = ":"

C5_WitnessNoParams ==
    StringDone /\ msg.Params = <<>> /\ msg.Cmd # <<>> /\ line[Len(line)] = " "

-----------------------------------------------------------------------------
(* Claims about what CmdHandler.Handle starts, checked under SpecCmd.      *)

\* A PRIVMSG with exactly two parameters whose prefix contains '!'.
WellFormed(m) == m.Cmd = PRIVMSG /\ Len(m.Params) = 2 /\ Contains(m.Prefix, <<"!">>)

RespondStartedBy(c) == \E r \in responds : r.by = c

\* A step of the Handle call of goroutine c.
HandleStep(c) == plan[c].op = "Handle" /\ pc'[c] # pc[c]

\* C11: a Handle call that has returned has started a Respond exactly when
\* its message is a PRIVMSG with two parameters and a '!' in its prefix and
\* the name it extracted was registered when it looked it up; a call that
\* has not returned has started none, and a call that starts none leaves no
\* Respond goroutine and no Msg of its own on the send channel. No step of
\* a Handle call changes the send channel or the registry.
C11_RespondIffWellFormedAndRegistered ==
    /\ [](\A c \in Callers :
            plan[c].op = "Handle" =>
              /\ pc[c] = "done" =>
                    (RespondStartedBy(c) <=>
                        /\ WellFormed(plan[c].msg)
                        /\ loc[c].extracted
                        /\ loc[c].name \in RegNames(loc[c].seen))
              /\ WellFormed(plan[c].msg) /\ pc[c] = "done" => loc[c].extracted
              /\ pc[c] # "done" => ~RespondStartedBy(c)
              /\ ~RespondStartedBy(c) =>
                    /\ resp[c].pc = "none"
                    /\ \A i \in DOMAIN send : send[i].ptr[1] # c)
    /\ [][\A c \in Callers :
            HandleStep(c) => send' = send /\ cmds' = cmds /\ regLog' = regLog]_vars

\* A Handle call has returned without a Respond for a two-parameter PRIVMSG
\* that names a registered Cmd and whose prefix has no '!'.
C11_Witness ==
    \E c \in Callers :
        /\ plan[c].op = "Handle" /\ pc[c] = "done"
        /\ ~RespondStartedBy(c)
        /\ plan[c].msg.Cmd = PRIVMSG /\ Len(plan[c].msg.Params) = 2
        /\ ~Contains(plan[c].msg.Prefix, <<"!">>)
        /\ plan[c].msg.Params[2] = prefix \o NameE
        /\ NameE \in DOMAIN cmds

-----------------------------------------------------------------------------
(* Claims about the two channels, checked under Spec.                      *)

Ptrs(q) == [i \in DOMAIN q |-> q[i].ptr]

\* The Msg the intake goroutine holds while it waits to send it.
InHand == IF ipc = "recv<-" THEN <<imsg.ptr>> ELSE <<>>

\* What one step can do to a channel: nothing, take its oldest value, or
\* add one value behind those it holds when it holds less than cap.
ChannelStep(q, qNext, cap) ==
    \/ qNext = q
    \/ q # <<>> /\ qNext = Tail(q)
    \/ Len(q) < cap /\ Len(qNext) = Len(q) + 1 /\ SubSeq(qNext, 1, Len(q)) = q

\* C12: recv and send never hold more than 5 Msgs. While recv is full the
\* intake goroutine cannot send the Msg it holds, and while send is full no
\* Handle can send. Every Msg decoded is received by Listen's loop, waits on
\* recv in arrival order or is held by the intake goroutine: none is
\* dropped. A step changes a channel only by taking its oldest Msg or by
\* adding one behind the others, never by replacing or removing another.
C12_BoundedQueues ==
    /\ [](/\ Len(recv) <= RecvCap /\ Len(send) <= SendCap
          /\ Len(recv) = RecvCap => ~ENABLED IntakeEnqueue
          /\ Len(send) = SendCap => \A t \in tasks : ~ENABLED HandleSend(t)
          /\ decoded = dequeued \o Ptrs(recv) \o InHand)
    /\ [][ChannelStep(recv, recv', RecvCap) /\ ChannelStep(send, send', SendCap)]_vars

\* recv is full and the intake goroutine waits with one more Msg.
C12_Witness == Running /\ Len(recv) = RecvCap /\ ipc = "recv<-"

\* send is full and a Handle that has not sent is running.
C12_WitnessSend == Running /\ Len(send) = SendCap /\ tasks # {}

-----------------------------------------------------------------------------
(* Claims about the fan-out of Listen's loop, checked under Spec.          *)

IsPrefix(s, t) == Len(s) <= Len(t) /\ SubSeq(t, 1, Len(s)) = s

\* The Accept calls Listen's loop has made when it has received the Msgs of
\* dequeued and sits where dpc and di say: all handlers, in the order of
\* client.handlers, for each Msg but the one whose range is not over.
AcceptsDue ==
    LET n == Len(handlers)
        full == IF dpc = "range" THEN Len(dequeued) - 1 ELSE Len(dequeued)
        part == IF dpc = "range" THEN di - 1 ELSE 0
    IN [k \in 1..(n * full + part) |->
          <<handlers[((k - 1) % n) + 1], dequeued[((k - 1) \div n) + 1]>>]

IsAccepted(e) == e \in accepted

\* C13: the Msgs Listen's loop has received from recv are a prefix of the
\* Msgs decoded, in arrival order; for each of them Accept has been called
\* once on every registered handler, in registration order, one Msg after
\* the other; and the go statements executed are, in the same order, one
\* for each of those calls that returned true.
C13_FanOutOnceInOrder ==
    /\ IsPrefix(dequeued, decoded)
    /\ listening => handlers = regOrder
    /\ acceptLog = AcceptsDue
    /\ spawnLog = SelectSeq(acceptLog, IsAccepted)
    /\ \A e \in accepted \cup rejected : Times(acceptLog, e) = 1

\* Two Msgs have gone through the range over two handlers, with an Accept
\* that returned true and one that returned false.
C13_Witness ==
    /\ Len(handlers) = 2 /\ Len(dequeued) = 2 /\ dpc = "select"
    /\ Len(acceptLog) = 4 /\ spawnLog # <<>> /\ rejected # {}

\* C14 as stated: for Msgs m1 decoded before m2 and a handler accepting
\* both, the body of its Handle for m1 begins before that of its Handle for
\* m2. A Handle goroutine runs its body in one step, so: when one runs, no
\* goroutine of the same handler for an earlier Msg has yet to run.
C14_BodiesInWireOrder ==
    [][\A t \in tasks :
          t \notin tasks' =>
             \A u \in tasks : u.h = t.h => u.msg.ptr >= t.msg.ptr]_vars

\* C14, amended: Listen's loop executes the go statements of a handler in
\* the order the Msgs were decoded.
C14_StartedInWireOrder ==
    \A i, j \in DOMAIN spawnLog :
        (i < j /\ spawnLog[i][1] = spawnLog[j][1]) => spawnLog[i][2] < spawnLog[j][2]

\* A handler's Handle was started for two Msgs; the goroutine for the later
\* Msg has run and the one for the earlier Msg has not.
C14_Witness ==
    \E t \in tasks :
        \E e \in started :
            /\ e[1] = t.h /\ e[2] > t.msg.ptr
            /\ \A u \in tasks : ~(u.h = e[1] /\ u.msg.ptr = e[2])

\* C15: a line is written only by a step of Listen's loop at its select
\* that receives the oldest Msg of send; the line is that Msg formatted by
\* String and is added after the lines written before. A step that takes a
\* Msg from send writes it, and a step that sends on the channel adds one
\* Msg behind those it holds and writes nothing: the lines are written in
\* the order the Msgs were sent, each once, and no Handle goroutine writes.
C15_SerializedWrites ==
    [][/\ wire' # wire =>
            /\ Running /\ dpc = "select" /\ dpc' = "select"
            /\ send # <<>> /\ send' = Tail(send)
            /\ wire' = Append(wire, String(Head(send).val))
            /\ tasks' = tasks
       /\ Len(send') < Len(send) => Len(wire') = Len(wire) + 1
       /\ Len(send') > Len(send) =>
            /\ SubSeq(send', 1, Len(send)) = send /\ Len(send') = Len(send) + 1
            /\ wire' = wire]_vars

\* Two lines have been written and more Msgs wait on send.
C15_Witness == Len(wire) >= 2 /\ send # <<>>

\* C16: whatever Handle goroutines are running, returned or not, blocked on
\* a full send channel or not, Listen's loop is never waiting for one of
\* them: in a running client, at its select it can receive from recv when
\* recv holds a Msg and from send when send holds one, and in its range it
\* can call the next Accept and start the next Handle.
C16_HandlerCannotBlockDispatch ==
    Running =>
        /\ (dpc = "select" /\ recv # <<>>) => ENABLED DispatchRecv
        /\ (dpc = "select" /\ send # <<>>) => ENABLED DispatchSend
        /\ dpc = "range" => ENABLED DispatchHandler

\* A Handle has not returned; since it was started the loop has received a
\* later Msg and started a Handle for it, a line has been written, and the
\* loop is in the range for one more Msg.
C16_Witness ==
    /\ Running /\ dpc = "range" /\ wire # <<>>
    /\ \E t \in tasks :
          /\ \E e \in started : e[2] > t.msg.ptr
          /\ dmsg.ptr > t.msg.ptr

-----------------------------------------------------------------------------
(* Claims about Respond goroutines and the Response Sink, under SpecCmd.   *)

\* The Respond goroutine of c has been started and has not returned.
Responding(c) == resp[c].pc \in {"run", "send<-", "assign", "deferred"}

\* The next step of the goroutine that holds the mutex.
HolderStep ==
    \E c \in Callers :
        \/ cmdsMtx = c /\ \/ RegisterAssign(c) \/ RegisterReturn(c)
                          \/ HandleLookup(c) \/ HandleUnlock(c)
                          \/ RegisteredNamesRange(c) \/ RegisteredNamesReturn(c)
        \/ cmdsMtx = Responder(c) /\ (RespondRegisterAssign(c) \/ RespondRegisterReturn(c))

\* C17: while a Respond runs or waits on the send channel, the Handle call
\* that started it does not hold the mutex, and the Respond goroutine holds
\* it only inside a Register call of its own. Whoever holds the mutex is
\* between the Lock and the Unlock of one call, at its single map
\* operation or at its Unlock, and can take its next step in every state:
\* no Respond that is running, blocked or calling Register keeps another
\* call waiting for the mutex forever.
C17_LockNeverHeldAcrossRespond ==
    /\ \A c \in Callers :
          /\ Responding(c) => cmdsMtx # c /\ pc[c] = "done"
          /\ resp[c].pc \in {"run", "send<-", "done", "none"} => cmdsMtx # Responder(c)
    /\ cmdsMtx # NoHolder =>
          /\ cmdsMtx \in Goroutines /\ InCriticalSection(cmdsMtx)
          /\ \A g \in Goroutines : InCriticalSection(g) => g = cmdsMtx
          /\ ENABLED HolderStep

\* A Respond waits on the full send channel while another Respond holds
\* the mutex inside the Register call it makes.
C17_Witness ==
    \E c, d \in Callers :
        /\ resp[c].pc = "send<-" /\ Len(send) = SendCap
        /\ cmdsMtx = Responder(d) /\ resp[d].pc = "assign"

\* The Msgs on the send channel that the Respond of c sent, oldest first.
SentBy(c) ==
    LET IsFrom(e) == e.ptr[1] = c
    IN SelectSeq(send, IsFrom)

\* C18: with nothing receiving from the channel, the Msgs on it that came
\* through the sink of a Respond are one for each Write call that has
\* returned, in call order: a PRIVMSG with no prefix whose parameters are
\* the receiver the sink is bound to (the first parameter of the Msg
\* handled) and the bytes written. The last Write returned the length of
\* its bytes. A Write that finds the channel full has sent nothing and
\* cannot proceed, and the channel never holds more than its capacity.
C18_WriteSendsOnePrivmsg ==
    /\ Len(send) <= SendCap
    /\ \A c \in Callers :
          LET w == resp[c].written
          IN /\ Len(SentBy(c)) = Len(w)
             /\ \A k \in DOMAIN w :
                   /\ SentBy(c)[k].ptr = <<c, k>>
                   /\ SentBy(c)[k].val =
                        [Raw |-> <<>>, Prefix |-> <<>>, Cmd |-> PRIVMSG,
                         Params |-> <<plan[c].msg.Params[1], w[k]>>]
             /\ w # <<>> => resp[c].n = Len(w[Len(w)])
             /\ (resp[c].pc = "send<-" /\ Len(send) = SendCap) => ~ENABLED WriteSend(c)

\* A Write of one byte has returned 1 and filled the channel; another
\* Write waits.
C18_Witness ==
    \E c, d \in Callers :
        /\ resp[c].written = << <<"o">> >> /\ resp[c].n = 1 /\ resp[c].pc = "run"
        /\ Len(send) = SendCap
        /\ resp[d].pc = "send<-"

-----------------------------------------------------------------------------
(* Claim about Client.Register, checked under SpecRacy.                    *)

\* C19: nothing orders a Register call with another one or with Listen.
\* When no Register call has overlapped another one or Listen, so that all
\* of them returned before Listen was called, client.handlers holds the
\* handler of every call that returned, in the order of the calls, the
\* range of every Msg is over that slice, and Accept has been called on
\* each of them for each Msg received. (With an overlap none of this is
\* guaranteed: C19_Witness.)
C19_HandlersKeptWithoutOverlap ==
    ~overlap =>
        /\ handlers = regOrder
        /\ \A h \in HandlerIds : reg[h].pc = "done" => h \in Registered
        /\ dpc = "range" => dhandlers = regOrder
        /\ listening => acceptLog = AcceptsDue

\* Two Register calls overlapped and both returned; client.handlers holds
\* one handler only, and the Msg received since was offered to that one
\* alone.
C19_Witness ==
    /\ overlap
    /\ \A h \in HandlerIds : reg[h].pc = "done"
    /\ Len(handlers) = 1
    /\ Len(dequeued) = 1 /\ dpc = "select" /\ Len(acceptLog) = 1

\* A Register call overlapped the read of client.handlers by Listen's
\* range, and the process ended.
C19_WitnessTornRead == crashed /\ overlap /\ decoded = dequeued /\ dequeued # <<>>

-----------------------------------------------------------------------------
(* Claim about the progress of the pipeline, checked under SpecFair.       *)

\* C20: with a fair select loop every Msg sent on send is eventually
\* written, every Msg on recv is eventually received by the loop, and the
\* intake goroutine or a Handle waiting on a full channel eventually finds
\* room on it.
C20_Progress ==
    /\ (send # <<>>) ~> (send = <<>>)
    /\ (recv # <<>>) ~> (recv = <<>>)
    /\ (Len(recv) = RecvCap) ~> (Len(recv) < RecvCap)
    /\ (Len(send) = SendCap) ~> (Len(send) < SendCap)

=============================================================================
